---- MODULE Spec2Model ----
(***************************************************************************)
(* regex-fractals (src/src/main.rs): a regex is matched against the        *)
(* quadrant address of every pixel of a square canvas, and the match       *)
(* decides the pixel's colour.                                             *)
(*                                                                         *)
(* Two specifications share the variables:                                 *)
(*   Spec      the program from do_work on: option parsing, create_image   *)
(*             (Regex::new, then one closure call per pixel), image.save;  *)
(*   SpecAddr  pixel_string alone, one loop iteration per step, on inputs  *)
(*             (x, y, size) drawn from the bounded sets below.             *)
(* Texts are sequences of one-character strings.                           *)
(***************************************************************************)
EXTENDS Integers, Sequences, FiniteSets, TLC

VARIABLES
    pc,          \* position in the program
    args,        \* the command line: option texts and the free REGEX argument
    options,     \* ImageOptions built by do_work (NoOptions before)
    grid,        \* the RgbImage buffer of create_image: (x, y) -> [u8; 3]
    cursor,      \* number of closure calls RgbImage::from_fn has made
    save_called, \* image.save has been called
    err,         \* which unwrap() panicked: "none", "size", "color", "pattern"
    nan_cast,    \* what `NaN as u8` yields in this build (undefined in the language)
    px, py, psize,      \* pixel_string's arguments
    cx, cy, half, id    \* pixel_string's locals

vars == <<pc, args, options, grid, cursor, save_called, err, nan_cast,
          px, py, psize, cx, cy, half, id>>

(***************************************************************************)
(* Bounds                                                                  *)
(***************************************************************************)
\* canvas sizes 2^0 .. 2^MaxLog are explored
MaxLog == 3
\* every canvas size 0 .. MaxSmall is explored, powers of two or not
MaxSmall == 3

RECURSIVE Pow2(_)
Pow2(k) == IF k = 0 THEN 1 ELSE 2 * Pow2(k - 1)

Sizes == (0 .. MaxSmall) \cup { Pow2(k) : k \in 0 .. MaxLog }

IsPow2(n) == \E k \in 0 .. (MaxLog + MaxSmall) : n = Pow2(k)

Log2(n) == CHOOSE k \in 0 .. (MaxLog + MaxSmall) : n = Pow2(k)

(***************************************************************************)
(* Texts and their conversions                                             *)
(***************************************************************************)
HexChars == <<"0", "1", "2", "3", "4", "5", "6", "7", "8", "9",
              "a", "b", "c", "d", "e", "f">>

IsHex(c) == \E i \in 1 .. 16 : HexChars[i] = c

HexVal(c) == (CHOOSE i \in 1 .. 16 : HexChars[i] = c) - 1

IsDigit(c) == \E i \in 1 .. 10 : HexChars[i] = c

\* str::parse::<u32>: Err on the empty text and on any non-digit, else the
\* decimal value (the texts explored have at most two digits, far from u32::MAX).
RECURSIVE DecValue(_)
DecValue(text) ==
    IF Len(text) = 0 THEN 0
    ELSE 10 * DecValue(SubSeq(text, 1, Len(text) - 1)) + HexVal(text[Len(text)])

parse_u32(text) ==
    IF Len(text) = 0 \/ \E i \in 1 .. Len(text) : ~IsDigit(text[i])
    THEN [ok |-> FALSE, val |-> 0]
    ELSE [ok |-> TRUE, val |-> DecValue(text)]

\* to_color: the last six characters, decoded as three hex bytes.  A text
\* shorter than six characters or with a non-hex character among the last six
\* panics (the subtraction overflows or the slice fails; from_hex().unwrap()).
to_color(text) ==
    IF Len(text) < 6 THEN [ok |-> FALSE, val |-> <<0, 0, 0>>]
    ELSE LET base == Len(text) - 6
             h(i) == HexVal(text[base + i])
         IN IF \E i \in 1 .. 6 : ~IsHex(text[base + i])
            THEN [ok |-> FALSE, val |-> <<0, 0, 0>>]
            ELSE [ok |-> TRUE,
                  val |-> <<16 * h(1) + h(2), 16 * h(3) + h(4), 16 * h(5) + h(6)>>]

\* the decimal text of a size, as typed after -s
SizeText(n) ==
    IF n < 10 THEN <<HexChars[n + 1]>>
    ELSE <<HexChars[(n \div 10) + 1], HexChars[(n % 10) + 1]>>

White == <<"#", "f", "f", "f", "f", "f", "f">>
Dark == <<"#", "2", "2", "2", "2", "2", "2">>
Blue == <<"0", "0", "8", "0", "f", "f">>

\* texts given to -s: every explored size, and three that are no u32
SizeArgs == { SizeText(n) : n \in Sizes } \cup { <<"x">>, <<"-", "1">>, <<>> }

\* texts given to --on-color, --off-color, --match-color
ColorArgs == { White, Dark, Blue, <<"f", "f", "f">>, <<"#", "g", "g", "0", "0", "0", "0">> }

(***************************************************************************)
(* pixel_string                                                            *)
(***************************************************************************)
\* u32 subtraction; -1 stands for the underflow (a panic in a debug build,
\* a wrap-around in a release build)
Sub(a, b) == IF a >= b THEN a - b ELSE -1

LoopCond_mut(h) == h >= 1

\* while half > 1
LoopCond(h) == h > 1

LoopBody_mut(s) ==
    LET h == s.half
    IN IF s.cx >= h /\ s.cy < h
       THEN [cx |-> s.cx, cy |-> s.cy, half |-> h \div 2,
             id |-> Append(s.id, "1")]
       ELSE IF s.cx < h /\ s.cy < h
       THEN [cx |-> s.cx, cy |-> s.cy, half |-> h \div 2,
             id |-> Append(s.id, "2")]
       ELSE IF s.cx < h /\ s.cy >= h
       THEN [cx |-> s.cx, cy |-> Sub(s.cy, h), half |-> h \div 2,
             id |-> Append(s.id, "3")]
       ELSE [cx |-> Sub(s.cx, h), cy |-> Sub(s.cy, h), half |-> h \div 2,
             id |-> Append(s.id, "4")]

\* one iteration of the loop: the quadrant's symbol is pushed, the working
\* coordinates move into the quadrant, half is halved
LoopBody(s) ==
    LET h == s.half
    IN IF s.cx >= h /\ s.cy < h
       THEN [cx |-> Sub(s.cx, h), cy |-> s.cy, half |-> h \div 2,
             id |-> Append(s.id, "1")]
       ELSE IF s.cx < h /\ s.cy < h
       THEN [cx |-> s.cx, cy |-> s.cy, half |-> h \div 2,
             id |-> Append(s.id, "2")]
       ELSE IF s.cx < h /\ s.cy >= h
       THEN [cx |-> s.cx, cy |-> Sub(s.cy, h), half |-> h \div 2,
             id |-> Append(s.id, "3")]
       ELSE [cx |-> Sub(s.cx, h), cy |-> Sub(s.cy, h), half |-> h \div 2,
             id |-> Append(s.id, "4")]

LoopInit_mut(x, y, size) == [cx |-> x, cy |-> y, half |-> size, id |-> <<>>]

\* the locals before the loop
LoopInit(x, y, size) == [cx |-> x, cy |-> y, half |-> size \div 2, id |-> <<>>]

RECURSIVE RunLoop(_)
RunLoop(s) == IF LoopCond(s.half) THEN RunLoop(LoopBody(s)) ELSE s.id

pixel_string(x, y, size) == RunLoop(LoopInit(x, y, size))

(***************************************************************************)
(* The regex crate, on the patterns explored.  Regex::new fails on "(";    *)
(* is_match searches the whole text (unanchored unless the pattern         *)
(* anchors); captures is the leftmost-first match and at(1) its first      *)
(* group, None when the pattern has no group or the group took no part.    *)
(***************************************************************************)
Patterns == {"^22$", "(1)|2", "^(2*)", "", "("}

None == -1

regex_new_mut(pat) == TRUE

\* Regex::new(..): Ok or Err
regex_new(pat) == pat # "("

is_match(pat, s) ==
    CASE pat = "^22$"  -> s = <<"2", "2">>
      [] pat = "(1)|2" -> \E i \in 1 .. Len(s) : s[i] \in {"1", "2"}
      [] pat = "^(2*)" -> TRUE
      [] pat = ""      -> TRUE
      [] OTHER         -> FALSE

\* number of leading "2"s
RECURSIVE Leading2(_)
Leading2(s) ==
    IF Len(s) > 0 /\ s[1] = "2" THEN 1 + Leading2(Tail(s)) ELSE 0

\* captures.at(1): the length of the first group's text, or None
captures_at_1(pat, s) ==
    CASE pat = "(1)|2" ->
             LET i == CHOOSE j \in 1 .. Len(s) :
                          /\ s[j] \in {"1", "2"}
                          /\ \A k \in 1 .. (j - 1) : s[k] \notin {"1", "2"}
             IN IF s[i] = "1" THEN 1 ELSE None
      [] pat = "^(2*)" -> Leading2(s)
      [] OTHER         -> None

(***************************************************************************)
(* Colours.  An f64 proportion is the fraction num/den; den = 0 is the NaN *)
(* of 0.0 / 0.0.  For den <= 4 and u8 channels the f64 evaluation of       *)
(* fx + t * (fy - fx) truncates to the same integer as the exact fraction. *)
(***************************************************************************)
\* the match proportion t of the closure (lines 84-87)
proportion(pat, pixel_id) ==
    LET c == captures_at_1(pat, pixel_id)
    IN IF c # None THEN [num |-> c, den |-> Len(pixel_id)]
       ELSE [num |-> 0, den |-> 1]

IsNaN(t) == t.den = 0

u8_lerp_mut(t, x, y) ==
    IF IsNaN(t) THEN nan_cast
    ELSE (y * t.den + t.num * (x - y)) \div t.den

\* (fx + t * (fy - fx)) as u8
u8_lerp(t, x, y) ==
    IF IsNaN(t) THEN nan_cast
    ELSE (x * t.den + t.num * (y - x)) \div t.den

color_lerp(t, fst_color, snd_color) ==
    <<u8_lerp(t, fst_color[1], snd_color[1]),
      u8_lerp(t, fst_color[2], snd_color[2]),
      u8_lerp(t, fst_color[3], snd_color[3])>>

(***************************************************************************)
(* create_image's closure                                                  *)
(***************************************************************************)
\* coordinates of the n-th closure call of RgbImage::from_fn (row by row)
PixelAt(n, size) == <<n % size, n \div size>>

closure_mut_off(x, y, opts) ==
    LET pixel_id == pixel_string(x, y, opts.size)
    IN IF is_match(opts.regex, pixel_id)
       THEN color_lerp(proportion(opts.regex, pixel_id),
                       opts.on_color, opts.match_color)
       ELSE opts.match_color

closure_mut_stale(x, y, opts) ==
    LET prev == IF cursor = 0 THEN <<>>
                ELSE LET q == PixelAt(cursor - 1, opts.size)
                     IN pixel_string(q[1], q[2], opts.size)
        pixel_id == prev \o pixel_string(x, y, opts.size)
    IN IF is_match(opts.regex, pixel_id)
       THEN color_lerp(proportion(opts.regex, pixel_id),
                       opts.on_color, opts.match_color)
       ELSE opts.off_color

\* |x, y| { ... }: the colour of pixel (x, y)
closure(x, y, opts) ==
    LET pixel_id == pixel_string(x, y, opts.size)
    IN IF is_match(opts.regex, pixel_id)
       THEN color_lerp(proportion(opts.regex, pixel_id),
                       opts.on_color, opts.match_color)
       ELSE opts.off_color

(***************************************************************************)
(* The program                                                             *)
(***************************************************************************)
NoOptions == [match_color |-> <<0, 0, 0>>, off_color |-> <<0, 0, 0>>,
              on_color |-> <<0, 0, 0>>, regex |-> "", size |-> 0]

NoArgs == [size |-> <<>>, on |-> <<>>, off |-> <<>>, match |-> <<>>, regex |-> ""]

Coords(size) == (0 .. size - 1) \X (0 .. size - 1)

\* the command line reaches do_work with -s, the three colours and REGEX given
Init ==
    /\ pc = "do_work"
    /\ args \in [size : SizeArgs, on : ColorArgs, off : ColorArgs,
                 match : ColorArgs, regex : Patterns]
    /\ options = NoOptions
    /\ grid = <<>>
    /\ cursor = 0
    /\ save_called = FALSE
    /\ err = "none"
    /\ nan_cast \in {0, 255}
    /\ px = 0 /\ py = 0 /\ psize = 0
    /\ cx = 0 /\ cy = 0 /\ half = 0 /\ id = <<>>

AddrIdle == UNCHANGED <<px, py, psize, cx, cy, half, id>>

\* do_work up to the call of create_image: the size is parsed, then
\* match_color, off_color and on_color are decoded; each unwrap() may panic
do_work ==
    /\ pc = "do_work"
    /\ LET size == parse_u32(args.size)
           mc == to_color(args.match)
           fc == to_color(args.off)
           nc == to_color(args.on)
       IN IF ~size.ok
          THEN /\ err' = "size" /\ pc' = "panicked" /\ UNCHANGED options
          ELSE IF ~mc.ok \/ ~fc.ok \/ ~nc.ok
          THEN /\ err' = "color" /\ pc' = "panicked" /\ UNCHANGED options
          ELSE /\ options' = [match_color |-> mc.val, off_color |-> fc.val,
                              on_color |-> nc.val, regex |-> args.regex,
                              size |-> size.val]
               /\ pc' = "create_image"
               /\ UNCHANGED err
    /\ UNCHANGED <<args, grid, cursor, save_called, nan_cast>>
    /\ AddrIdle

\* create_image up to from_fn's first closure call: Regex::new(..).unwrap(),
\* then the zeroed size x size buffer
create_image ==
    /\ pc = "create_image"
    /\ IF ~regex_new(options.regex)
       THEN /\ err' = "pattern" /\ pc' = "panicked" /\ UNCHANGED grid
       ELSE /\ grid' = [p \in Coords(options.size) |-> <<0, 0, 0>>]
            /\ pc' = "from_fn"
            /\ UNCHANGED err
    /\ UNCHANGED <<args, options, cursor, save_called, nan_cast>>
    /\ AddrIdle

\* one closure call of RgbImage::from_fn
from_fn_pixel ==
    /\ pc = "from_fn"
    /\ cursor < options.size * options.size
    /\ LET p == PixelAt(cursor, options.size)
       IN grid' = [grid EXCEPT ![p] = closure(p[1], p[2], options)]
    /\ cursor' = cursor + 1
    /\ UNCHANGED <<pc, args, options, save_called, err, nan_cast>>
    /\ AddrIdle

\* create_image returns and do_work calls image.save
save ==
    /\ pc = "from_fn"
    /\ cursor = options.size * options.size
    /\ save_called' = TRUE
    /\ pc' = "done"
    /\ UNCHANGED <<args, options, grid, cursor, err, nan_cast>>
    /\ AddrIdle

Next == do_work \/ create_image \/ from_fn_pixel \/ save

Spec == Init /\ [][Next]_vars

(***************************************************************************)
(* pixel_string, one loop iteration per step                               *)
(***************************************************************************)
InitAddr ==
    /\ pc = "pixel_string"
    /\ psize \in Sizes
    /\ px \in 0 .. (psize - 1)
    /\ py \in 0 .. (psize - 1)
    /\ cx = LoopInit(px, py, psize).cx
    /\ cy = LoopInit(px, py, psize).cy
    /\ half = LoopInit(px, py, psize).half
    /\ id = LoopInit(px, py, psize).id
    /\ args = NoArgs
    /\ options = NoOptions
    /\ grid = <<>>
    /\ cursor = 0
    /\ save_called = FALSE
    /\ err = "none"
    /\ nan_cast = 0

MainIdle == UNCHANGED <<args, options, grid, cursor, save_called, err, nan_cast>>

loop_step ==
    /\ pc = "pixel_string"
    /\ LoopCond(half)
    /\ LET s == LoopBody([cx |-> cx, cy |-> cy, half |-> half, id |-> id])
       IN /\ cx' = s.cx
          /\ cy' = s.cy
          /\ half' = s.half
          /\ id' = s.id
    /\ UNCHANGED <<pc, px, py, psize>>
    /\ MainIdle

loop_exit ==
    /\ pc = "pixel_string"
    /\ ~LoopCond(half)
    /\ pc' = "returned"
    /\ UNCHANGED <<px, py, psize, cx, cy, half, id>>
    /\ MainIdle

NextAddr == loop_step \/ loop_exit

SpecAddr == InitAddr /\ [][NextAddr]_vars

(***************************************************************************)
(* Properties of pixel_string (checked under SpecAddr)                     *)
(***************************************************************************)
Alphabet == {"1", "2", "3", "4"}

SameBlock(q, x, y) == q[1] \div 2 = x \div 2 /\ q[2] \div 2 = y \div 2

AddrOf(q) == pixel_string(q[1], q[2], psize)

\* C1, as stated: on a power-of-two canvas no other coordinate has the
\* address returned for (px, py).
C1_Injective ==
    (pc = "returned" /\ IsPow2(psize))
        => \A q \in Coords(psize) : q # <<px, py>> => AddrOf(q) # id

\* C1, amended: on a power-of-two canvas no coordinate of another aligned
\* 2x2 block has the address returned for (px, py).
C1_InjectiveAcrossBlocks ==
    (pc = "returned" /\ IsPow2(psize))
        => \A q \in Coords(psize) : ~SameBlock(q, px, py) => AddrOf(q) # id

C1_Witness ==
    /\ pc = "returned" /\ psize = 8 /\ px = 5 /\ py = 3
    /\ AddrOf(<<2, 6>>) # id

\* C3, as stated: on a size-8 canvas pixel_string returns "22" for (0,0),
\* "44" for (7,7), "12" for (4,0) and "23" for (0,4).
C3_Examples ==
    (pc = "returned" /\ psize = 8)
        => /\ (px = 0 /\ py = 0) => id = <<"2", "2">>
           /\ (px = 7 /\ py = 7) => id = <<"4", "4">>
           /\ (px = 4 /\ py = 0) => id = <<"1", "2">>
           /\ (px = 0 /\ py = 4) => id = <<"2", "3">>

\* C3, amended: on a size-8 canvas pixel_string returns "22" for (0,0),
\* "44" for (7,7), "12" for (4,0) and "32" for (0,4).
C3_ExamplesSymbolOrder ==
    (pc = "returned" /\ psize = 8)
        => /\ (px = 0 /\ py = 0) => id = <<"2", "2">>
           /\ (px = 7 /\ py = 7) => id = <<"4", "4">>
           /\ (px = 4 /\ py = 0) => id = <<"1", "2">>
           /\ (px = 0 /\ py = 4) => id = <<"3", "2">>

C3_Witness ==
    pc = "returned" /\ psize = 8 /\ px = 0 /\ py = 4 /\ id = <<"3", "2">>

\* C4: for a power-of-two size >= 2 the returned address is a string over
\* {1,2,3,4} of length log2(size) - 1.
C4_Length ==
    (pc = "returned" /\ IsPow2(psize) /\ psize >= 2)
        => /\ Len(id) = Log2(psize) - 1
           /\ \A i \in 1 .. Len(id) : id[i] \in Alphabet

C4_Witness ==
    pc = "returned" /\ psize = 8 /\ px = 7 /\ py = 2 /\ Len(id) = 2

\* C10: for a power-of-two size >= 2, a coordinate has the address returned
\* for (px, py) exactly when it lies in the same aligned 2x2 block; the loop
\* keeps cx < 2*half and cy < 2*half, never underflows, and ends at half = 1.
C10_SameBlockIff ==
    (IsPow2(psize) /\ psize >= 2)
        => /\ pc \in {"pixel_string", "returned"}
                => /\ 0 <= cx /\ cx < 2 * half
                   /\ 0 <= cy /\ cy < 2 * half
           /\ pc = "returned"
                => /\ half = 1
                   /\ \A q \in Coords(psize) :
                          (AddrOf(q) = id) <=> SameBlock(q, px, py)

C10_Witness ==
    /\ pc = "returned" /\ psize = 8 /\ px = 6 /\ py = 5
    /\ AddrOf(<<7, 4>>) = id
    /\ AddrOf(<<5, 5>>) # id

(***************************************************************************)
(* Properties of the render (checked under Spec)                           *)
(***************************************************************************)
\* the coordinates whose closure call has returned
Rendered == { PixelAt(n, options.size) : n \in 0 .. (cursor - 1) }

\* the pixel the last closure call wrote and, once create_image has
\* returned, every pixel of the returned grid
Written ==
    IF pc = "done" THEN Rendered
    ELSE IF cursor > 0 THEN { PixelAt(cursor - 1, options.size) }
    ELSE {}

IdOf(p) == pixel_string(p[1], p[2], options.size)

Matched(p) == is_match(options.regex, IdOf(p))

T(p) == proportion(options.regex, IdOf(p))

C2Config ==
    args = [size |-> <<"8">>, on |-> White, match |-> White, off |-> Dark,
            regex |-> "^22$"]

\* C2, as stated: pattern ^22$, size 8, on and match #ffffff, off #222222:
\* pixel (0,0) is white and every other pixel is #222222.
C2_OnlyOriginWhite ==
    (C2Config /\ pc = "done")
        => /\ DOMAIN grid = Coords(8)
           /\ grid[<<0, 0>>] = <<255, 255, 255>>
           /\ \A p \in Coords(8) : p # <<0, 0>> => grid[p] = <<34, 34, 34>>

\* C2, amended: the four pixels of the block [0,2) x [0,2) are white and
\* every other pixel is #222222.
C2_OriginBlockWhite ==
    (C2Config /\ pc = "done")
        => /\ DOMAIN grid = Coords(8)
           /\ \A p \in Coords(8) :
                  grid[p] = IF p[1] < 2 /\ p[2] < 2 THEN <<255, 255, 255>>
                            ELSE <<34, 34, 34>>

C2_Witness ==
    C2Config /\ pc = "done" /\ save_called /\ cursor = 64

\* C5: a pixel whose address the pattern does not match is written, and
\* returned, as exactly the configured off-color.
C5_OffColorExact ==
    \A p \in Written : ~Matched(p) => grid[p] = to_color(args.off).val

C5_Witness ==
    /\ args.off = Blue /\ args.on = White /\ args.match = Dark
    /\ \E p \in Rendered : ~Matched(p) /\ grid[p] = <<0, 128, 255>>

\* C6: a pixel whose address matches with proportion 0 is written, and
\* returned, as exactly the on-color.
C6_OnColorAtZero ==
    \A p \in Written :
        LET t == T(p)
        IN (Matched(p) /\ ~IsNaN(t) /\ t.num = 0)
               => grid[p] = to_color(args.on).val

C6_Witness ==
    /\ args.on = Blue /\ args.match = Dark /\ args.regex = "(1)|2"
    /\ \E p \in Rendered :
           /\ Matched(p)
           /\ captures_at_1(options.regex, IdOf(p)) = None
           /\ grid[p] = <<0, 128, 255>>

BadSize == args.size \in { <<"x">>, <<"-", "1">>, <<>> }

BadColor ==
    \E c \in {args.on, args.off, args.match} :
        c \in { <<"f", "f", "f">>, <<"#", "g", "g", "0", "0", "0", "0">> }

BadPattern == args.regex = "("

NoPixelNoSave == cursor = 0 /\ ~save_called /\ pc \notin {"from_fn", "done"}

C9_ProportionInUnitInterval ==
    \A p \in Rendered :
        Matched(p) => (~IsNaN(T(p)) /\ 0 <= T(p).num /\ T(p).num <= T(p).den)

====
